---- MODULE Spec2Model ----
(***************************************************************************)
(* zeropoint-agent: the dual-branch State Store (git log with the branches *)
(* main = reality and edit = intent, JSON exports per table, and the       *)
(* relational cache), the phased reconciliation Executor, the             *)
(* construction of the store on a root (first run, later runs, damaged     *)
(* cache file), the nine commands on a small host (one directory, one      *)
(* mountpoint, one device) and read calls made from two threads.           *)
(*                                                                         *)
(* Commits are numbered 1, 2, ... in creation order and carry an explicit  *)
(* parent; 0 stands for "no commit".  A row is [id, v]: its primary key    *)
(* and one payload column; the columns the schema adds to a selected row   *)
(* (created_at, NULL for a column the export lacks) are left out, so rows  *)
(* are compared on what was written.  An export that is missing and an     *)
(* export that holds the empty list are both the empty sequence:           *)
(* _import_from_branch skips either one the same way and nothing else      *)
(* reads exports.                                                          *)
(***************************************************************************)
EXTENDS Integers, Sequences, FiniteSets, TLC

\* ------------------------------------------------------------------ bounds
\* commits in the log, the initial one included
MaxCommits == 3
\* the same, while two reconcile() calls overlap
MaxConcCommits == 2

\* Commits in the log when reads, status calls and writes of variables are
\* mixed with reconcile() calls
MaxClientCommits == 2

\* Commits in the log of a root that is initialized again and again
MaxBootCommits == 2

\* Filesystems mounted one over the other on a mountpoint
MaxStack == 2

Callers == {1, 2}

\* ------------------------------------------------------------------ tables
EXPORT_FILES == <<"disks", "mounts", "paths", "vars", "modules", "links", "exposures">>

Tables == {EXPORT_FILES[k] : k \in 1..Len(EXPORT_FILES)}

Row(i, v) == [id |-> i, v |-> v]

EmptySnapshot == [t \in Tables |-> <<>>]

EmptyDb == [t \in Tables |-> {}]

IdsOf(rows) == {rows[k].id : k \in 1..Len(rows)}

UniqueIds(rows) == \A j, k \in 1..Len(rows) : rows[j].id = rows[k].id => j = k

\* The row lists a caller of write_to_edit passes: empty, sorted, unsorted,
\* changed payload, and one with a repeated id.
RowLists ==
    { <<>>,
      <<Row(1, "x")>>,
      <<Row(2, "x"), Row(1, "x")>>,
      <<Row(1, "y")>>,
      <<Row(1, "x"), Row(1, "y")>> }

\* The tables the callers of write_to_edit write in this model.
WriteTables == {"disks", "mounts"}

\* Values a client writes to the vars table: a literal, and the references
\* ${path:p9} and ${v9} to a path and a variable nobody defines.
VarLists == {<<Row(1, "literal")>>, <<Row(1, "${path:p9}")>>, <<Row(1, "${v9}")>>}

\* The row a variable value refers to, as [table, id]; id 0 for a literal.
RefOf(v) ==
    IF v = "${path:p9}" THEN [table |-> "paths", id |-> 9]
    ELSE IF v = "${v9}" THEN [table |-> "vars", id |-> 9]
    ELSE [table |-> "none", id |-> 0]

\* The defaults documents a fresh store is initialised from.
DefaultsDocs ==
    { EmptySnapshot,
      [EmptySnapshot EXCEPT !["disks"] = <<Row(1, "x")>>] }

\* ------------------------------------------------------------ the cache
\* The element of a one-element set.  {f(x) : x \in {e}} holds f of the value
\* of e, e being evaluated once, as a local variable of the code is.
The(S) == CHOOSE r \in S : TRUE

\* the statement is INSERT OR REPLACE: a row with a repeated id takes the
\* place of the earlier one
InsertRows_or_replace(tbl, rows, k) ==
    LET kept == {rows[j] : j \in {i \in k..Len(rows) :
                                   \A m \in (i + 1)..Len(rows) : rows[m].id # rows[i].id}}
    IN  [rows |-> {r \in tbl : r.id \notin {q.id : q \in kept}} \cup kept, ok |-> TRUE]

\* sqlite: INSERT one row after the other into a table with PRIMARY KEY id;
\* the first repeated id raises IntegrityError and the rows inserted before
\* it stay visible on the connection.
RECURSIVE InsertRows(_, _, _)
InsertRows(tbl, rows, k) ==
    IF k > Len(rows) THEN [rows |-> tbl, ok |-> TRUE]
    ELSE IF \E r \in tbl : r.id = rows[k].id THEN [rows |-> tbl, ok |-> FALSE]
    ELSE InsertRows(tbl \cup {rows[k]}, rows, k + 1)

\* One table of _import_from_branch: a missing or empty export is skipped
\* (the table keeps what it held); otherwise DELETE, then the INSERTs.
ImportTable(tbl, rows) ==
    IF rows = <<>> THEN [rows |-> tbl, ok |-> TRUE]
    ELSE InsertRows({}, rows, 1)

RECURSIVE ImportTables(_, _, _)
ImportTables(d, exports, k) ==
    IF k > Len(EXPORT_FILES) THEN [db |-> d, ok |-> TRUE]
    ELSE LET t == EXPORT_FILES[k]
         IN  The({ The({ IF ins.ok THEN ImportTables(d2, exports, k + 1)
                         ELSE [db |-> d2, ok |-> FALSE]
                         : d2 \in {[d EXCEPT ![t] = ins.rows]} })
                   : ins \in {ImportTable(d[t], exports[t])} })

import_from_branch(d, exports) == ImportTables(d, exports, 1)

\* SELECT * FROM t ORDER BY id
RECURSIVE SortById(_)
SortById(S) ==
    IF S = {} THEN <<>>
    ELSE LET m == CHOOSE r \in S : \A q \in S : r.id <= q.id
         IN  <<m>> \o SortById(S \ {m})

Select(d, t) == SortById(d[t])

\* get_desired_resources / get_actual_resources on the checkout `exports`:
\* re-import, then select.
get_resources(d, exports, t) ==
    The({ [db |-> imp.db, ok |-> imp.ok,
           rows |-> IF imp.ok THEN Select(imp.db, t) ELSE <<>>]
          : imp \in {import_from_branch(d, exports)} })

\* A dict built from one get_*_resources call per key, in order; the first
\* call that raises aborts the rest.
RECURSIVE ReadAll(_, _, _, _, _)
ReadAll(d, exports, keys, k, acc) ==
    IF k > Len(keys) THEN [db |-> d, ok |-> TRUE, dict |-> acc]
    ELSE The({ IF ~g.ok THEN [db |-> g.db, ok |-> FALSE, dict |-> acc]
               ELSE The({ ReadAll(g.db, exports, keys, k + 1, dict)
                          : dict \in {[t \in (DOMAIN acc) \cup {keys[k]} |->
                                          IF t = keys[k] THEN g.rows ELSE acc[t]]} })
               : g \in {get_resources(d, exports, keys[k])} })

EmptyDict == [t \in {} |-> <<>>]

ProbeKeys == <<"disks", "mounts", "paths", "modules", "exposures">>

DesiredKeys == <<"disks", "mounts", "paths", "vars", "modules", "exposures">>

\* ------------------------------------------------------------ the git log
VARIABLES
    commits,            \* the log: commits[n] = [parent, snap, msg]
    heads,              \* heads.main, heads.edit: the branch tips
    wt,                 \* exports of .worktree-main and .worktree-edit
    db,                 \* the relational cache (one shared connection)
    last,               \* outcome of the latest State Store call made by a client
    state,              \* Executor.state
    reboot_required,    \* Executor.reboot_required
    pending_resources,  \* Executor.pending_resources
    last_committed_sha, \* Executor.last_committed_sha (0: None)
    pc,                 \* per caller: position inside reconcile()
    actual_state,       \* per caller: local of reconcile()
    desired_state,      \* per caller: local of reconcile()
    resp,               \* per caller: the ReconcileResponse returned
    ran,                \* per caller: the phases run by the call, with their results
    exc,                \* per caller: the exception the call caught, if any
    defaults_file,      \* the defaults document the store was initialized from
    tmp,                \* the temporary files beside the exports of .worktree-edit
    torn,               \* the exports of .worktree-edit that hold an incomplete document
    writer,             \* a write_to_edit call taken step by step: its position
    root,               \* the store's root: "absent", "unborn" (a repository without a commit) or "log"
    up,                 \* a StateStore object has been constructed and not yet dropped
    cache,              \* the cache file: what it is and the tables it holds
    defaults_exists,    \* the defaults document exists on disk (defaults_file: its content)
    host,               \* the host the commands act on: directories, mounts, devices
    done,               \* the latest Command.execute call: command, resource, outcome
    reader              \* per thread: its get_actual / get_desired call, step by step

storeVars == <<commits, heads, wt, db, last>>

execVars == <<state, reboot_required, pending_resources, last_committed_sha>>

callVars == <<pc, actual_state, desired_state, resp, ran, exc>>

bootVars == <<root, up, cache, defaults_exists>>

cmdVars == <<host, done>>

diskVars == <<defaults_file, tmp, torn, writer, bootVars, cmdVars, reader>>

vars == <<commits, heads, wt, db, last, state, reboot_required, pending_resources,
          last_committed_sha, pc, actual_state, desired_state, resp, ran, exc,
          defaults_file, tmp, torn, writer, root, up, cache, defaults_exists,
          host, done, reader>>

Known(c) == c \in 1..Len(commits)

\* a is b or an ancestor of b
RECURSIVE IsAncestor(_, _, _)
IsAncestor(log, a, b) ==
    IF b = 0 THEN FALSE
    ELSE IF a = b THEN TRUE
    ELSE IsAncestor(log, a, log[b].parent)

\* the branch is moved to any known commit (git reset instead of a
\* fast-forward)
git_reset_to(log, tip, sha) ==
    IF sha \notin 1..Len(log) THEN [ok |-> FALSE, tip |-> tip]
    ELSE [ok |-> TRUE, tip |-> sha]

\* git merge --ff-only <sha> in the main checkout: an unknown sha fails; a
\* commit already contained in main is "Already up to date" (exit 0, main
\* stays); a descendant of main fast-forwards; anything else fails.
git_merge_ff_only(log, tip, sha) ==
    IF sha \notin 1..Len(log) THEN [ok |-> FALSE, tip |-> tip]
    ELSE IF IsAncestor(log, sha, tip) THEN [ok |-> TRUE, tip |-> tip]
    ELSE IF IsAncestor(log, tip, sha) THEN [ok |-> TRUE, tip |-> sha]
    ELSE [ok |-> FALSE, tip |-> tip]

\* the tip of the log is replaced by the new commit (commit --amend)
index_commit_amend(log, parent, snap, msg) ==
    IF log = <<>> THEN <<[parent |-> parent, snap |-> snap, msg |-> msg]>>
    ELSE [log EXCEPT ![Len(log)] = [parent |-> log[Len(log)].parent, snap |-> snap, msg |-> msg]]

\* index.commit on the checkout of `branch`: one new commit on top of that
\* branch's tip, holding the checkout's exports.
index_commit(log, parent, snap, msg) ==
    Append(log, [parent |-> parent, snap |-> snap, msg |-> msg])

\* The commit message a client passes with a write of `table`.
Messages ==
    [t \in Tables |->
        IF t = "disks" THEN "update disks"
        ELSE IF t = "mounts" THEN "update mounts"
        ELSE "update"]

MessageFor(table) == Messages[table]

\* No temporary file exists.
NoTmp == [t \in Tables |-> "absent"]

\* No write is in progress.
NoWriter == [at |-> "idle", table |-> "none", rows |-> <<>>]

\* What a client of the store saw from its latest call: the operation, the
\* commit id and the table and rows it passed, the outcome (the new commit
\* id of a write, "ok" or the exception raised) and the value returned.
Call(op, arg, table, rows, res, value) ==
    [op |-> op, arg |-> arg, table |-> table, rows |-> rows, res |-> res, value |-> value]

NoCall == Call("none", 0, "none", <<>>, "none", <<>>)

\* SCHEMA: a cache file that sqlite can open and that holds every table.
FullCache == [file |-> "sqlite", tables |-> Tables]

\* The root after a successful StateStore.__init__: the log exists, the
\* store object is constructed and the cache file holds the schema.
Booted ==
    /\ root = "log"
    /\ up = TRUE
    /\ cache = FullCache
    /\ defaults_exists = TRUE

\* the defaults document is not read: the initial commit has no export
InitStore_without_defaults ==
    \E defaults \in DefaultsDocs :
        /\ defaults_file = defaults
        /\ tmp = NoTmp
        /\ torn = {}
        /\ writer = NoWriter
        /\ commits = index_commit(<<>>, 0, EmptySnapshot, "Initialize state repo with defaults")
        /\ heads = [main |-> 1, edit |-> 1]
        /\ wt = [main |-> EmptySnapshot, edit |-> EmptySnapshot]
        /\ db = EmptyDb
        /\ last = NoCall
        /\ Booted

\* StateStore.__init__ on a fresh root: the initial commit holds the
\* defaults, edit is created from main, both checkouts are added, and the
\* cache is built from main.
InitStore ==
    \E defaults \in DefaultsDocs :
        /\ defaults_file = defaults
        /\ tmp = NoTmp
        /\ torn = {}
        /\ writer = NoWriter
        /\ commits = index_commit(<<>>, 0, defaults, "Initialize state repo with defaults")
        /\ heads = [main |-> 1, edit |-> 1]
        /\ wt = [main |-> defaults, edit |-> defaults]
        /\ db = import_from_branch(EmptyDb, defaults).db
        /\ last = NoCall
        /\ Booted

\* the commit is made through the main checkout
write_to_edit_on_main(table, rows) ==
    /\ Len(commits) < MaxCommits
    /\ LET exports == [wt.main EXCEPT ![table] = rows]
           log     == index_commit(commits, heads.main, exports, MessageFor(table))
       IN  /\ wt' = [wt EXCEPT !.main = exports]
           /\ commits' = log
           /\ heads' = [heads EXCEPT !.main = Len(log)]
           /\ last' = Call("write", 0, table, rows, Len(log), <<>>)
    /\ UNCHANGED db

\* the commit holds the written export alone
write_to_edit_drops_others(table, rows) ==
    /\ Len(commits) < MaxCommits
    /\ LET exports == [EmptySnapshot EXCEPT ![table] = rows]
           log     == index_commit(commits, heads.edit, exports, MessageFor(table))
       IN  /\ wt' = [wt EXCEPT !.edit = exports]
           /\ commits' = log
           /\ heads' = [heads EXCEPT !.edit = Len(log)]
           /\ last' = Call("write", 0, table, rows, Len(log), <<>>)
    /\ UNCHANGED db

\* write_to_edit(table, rows, message)
write_to_edit(table, rows) ==
    /\ Len(commits) < MaxCommits
    /\ LET exports == [wt.edit EXCEPT ![table] = rows]
           log     == index_commit(commits, heads.edit, exports, MessageFor(table))
       IN  /\ wt' = [wt EXCEPT !.edit = exports]
           /\ commits' = log
           /\ heads' = [heads EXCEPT !.edit = Len(log)]
           /\ last' = Call("write", 0, table, rows, Len(log), <<>>)
    /\ UNCHANGED db

\* merge_to_main(commit_sha)
merge_to_main(commit_sha) ==
    LET m == git_merge_ff_only(commits, heads.main, commit_sha)
    IN  IF ~m.ok
        THEN /\ last' = Call("merge", commit_sha, "none", <<>>, "RuntimeError", <<>>)
             /\ UNCHANGED <<commits, heads, wt, db>>
        ELSE LET exports == commits[m.tip].snap
                 imp     == import_from_branch(db, exports)
             IN  /\ heads' = [heads EXCEPT !.main = m.tip]
                 /\ wt' = [wt EXCEPT !.main = exports]
                 /\ db' = imp.db
                 /\ last' = Call("merge", commit_sha, "none", <<>>,
                                  IF imp.ok THEN "ok" ELSE "IntegrityError", <<>>)
                 /\ UNCHANGED commits

\* the read checks the branch it reads out into the main checkout
read_resources_switching(op, exports, table) ==
    LET r == get_resources(db, exports, table)
    IN  /\ db' = r.db
        /\ last' = Call(op, 0, table, <<>>, IF r.ok THEN "ok" ELSE "IntegrityError", r.rows)
        /\ wt' = [wt EXCEPT !.main = exports]
        /\ UNCHANGED <<commits, heads>>

\* the document is written straight into the export
tmp_path_is_path(table) == "export"

\* atomic_write_json, line 23: tmp = path.with_suffix(".tmp"), a file beside
\* the export.
tmp_path(table) == "tmp"

\* line 24, tmp.open("w"): the file exists and is empty.
open_w(table) ==
    IF tmp_path(table) = "tmp"
    THEN tmp' = [tmp EXCEPT ![table] = "partial"] /\ UNCHANGED <<torn, wt>>
    ELSE torn' = torn \cup {table} /\ UNCHANGED <<tmp, wt>>

\* lines 24-25, f.write(...) and the close: the file holds the whole document.
write_document(table, rows) ==
    IF tmp_path(table) = "tmp"
    THEN tmp' = [tmp EXCEPT ![table] = "complete"] /\ UNCHANGED <<torn, wt>>
    ELSE /\ torn' = torn \ {table}
         /\ wt' = [wt EXCEPT !.edit[table] = rows]
         /\ UNCHANGED tmp

\* line 26, tmp.replace(path): the rename puts the document in place.
replace(table, rows) ==
    IF tmp_path(table) = "tmp"
    THEN /\ wt' = [wt EXCEPT !.edit[table] = rows]
         /\ tmp' = [tmp EXCEPT ![table] = "absent"]
         /\ UNCHANGED torn
    ELSE UNCHANGED <<tmp, torn, wt>>

\* write_to_edit, lines 322-327: index.add of the one export and the commit;
\* the new commit holds its parent's snapshot with that export replaced.
add_and_commit(table, rows) ==
    LET snap == [commits[heads.edit].snap EXCEPT ![table] = wt.edit[table]]
        log  == index_commit(commits, heads.edit, snap, MessageFor(table))
    IN  /\ commits' = log
        /\ heads' = [heads EXCEPT !.edit = Len(log)]
        /\ last' = Call("write", 0, table, rows, Len(log), <<>>)

\* get_desired_resources(table) / get_actual_resources(table) called by a
\* client: re-import the branch's exports, then SELECT * ... ORDER BY id.
read_resources(op, exports, table) ==
    LET r == get_resources(db, exports, table)
    IN  /\ db' = r.db
        /\ last' = Call(op, 0, table, <<>>, IF r.ok THEN "ok" ELSE "IntegrityError", r.rows)
        /\ UNCHANGED <<commits, heads, wt>>

get_desired_resources(table) == read_resources("get_desired", wt.edit, table)

get_actual_resources(table) == read_resources("get_actual", wt.main, table)

\* list(iter_commits("edit", "^main")): the commits reachable from `tip` and
\* not from `excluded`, newest first.
RECURSIVE iter_commits(_, _, _)
iter_commits(log, tip, excluded) ==
    IF tip = 0 \/ IsAncestor(log, tip, excluded) THEN <<>>
    ELSE <<tip>> \o iter_commits(log, log[tip].parent, excluded)

\* the revisions are given the other way round: main, ^edit
edit_status_behind(log, hd) ==
    LET ahead == iter_commits(log, hd.main, hd.edit)
    IN  [ahead_count    |-> Len(ahead),
         latest_commit  |-> IF ahead # <<>> THEN ahead[1] ELSE 0,
         latest_message |-> IF ahead # <<>> THEN log[ahead[1]].msg ELSE "None"]

\* get_edit_status(): 0 and "None" stand for None.
edit_status(log, hd) ==
    LET ahead == iter_commits(log, hd.edit, hd.main)
    IN  [ahead_count    |-> Len(ahead),
         latest_commit  |-> IF ahead # <<>> THEN ahead[1] ELSE 0,
         latest_message |-> IF ahead # <<>> THEN log[ahead[1]].msg ELSE "None"]

get_edit_status ==
    /\ last' = Call("status", 0, "none", <<>>, "ok", edit_status(commits, heads))
    /\ UNCHANGED <<commits, heads, wt, db>>

\* ------------------------------------------------------------ the Executor
APPLIED == "applied"

BLOCKED == "blocked"

WAITING == "waiting"

FAILED == "failed"

Response(result, reason, error) == [result |-> result, reason |-> reason, error |-> error]

NoResponse == Response("none", "none", "none")

Phases == <<0, 1, 2, 3, 4, 5>>

\* the guard tests for a state the Executor never takes
is_running_blocked(st) == st = "BLOCKED"

is_running(st) == st = "RUNNING"

\* `if not actual_state`: a dict is falsy only when it has no key.
ProbeFailed(actual) == DOMAIN actual = {}

\* the result of a phase is never looked at
never_aborts(result) == FALSE

\* A phase result other than applied ends the call.
Aborts(result) == result # APPLIED

\* {d["id"]: d for d in rows}
DictById(rows) ==
    [i \in IdsOf(rows) |->
        rows[CHOOSE k \in 1..Len(rows) :
                /\ rows[k].id = i
                /\ \A j \in 1..Len(rows) : rows[j].id = i => j <= k]]

Get(dict, key) == IF key \in DOMAIN dict THEN dict[key] ELSE <<>>

\* the blocked exit leaves Executor.state as it found it
phase_1_storage_keeps_state(desired, actual, st, rr) ==
    LET desired_disks == DictById(Get(desired, "disks"))
        actual_disks  == DictById(Get(actual, "disks"))
    IN  IF /\ desired_disks # actual_disks
           /\ \E did \in DOMAIN desired_disks : did \notin DOMAIN actual_disks
        THEN [resp |-> Response(BLOCKED, "reboot_required", "none"),
              state |-> st, reboot_required |-> TRUE]
        ELSE [resp |-> Response(APPLIED, "none", "none"),
              state |-> st, reboot_required |-> rr]

\* any difference between the two disk tables blocks
phase_1_storage_on_any_difference(desired, actual, st, rr) ==
    LET desired_disks == DictById(Get(desired, "disks"))
        actual_disks  == DictById(Get(actual, "disks"))
    IN  IF desired_disks # actual_disks
        THEN [resp |-> Response(BLOCKED, "reboot_required", "none"),
              state |-> "IDLE", reboot_required |-> TRUE]
        ELSE [resp |-> Response(APPLIED, "none", "none"),
              state |-> st, reboot_required |-> rr]

\* a pass without a new disk clears reboot_required
phase_1_storage_clears_reboot(desired, actual, st, rr) ==
    LET desired_disks == DictById(Get(desired, "disks"))
        actual_disks  == DictById(Get(actual, "disks"))
    IN  IF /\ desired_disks # actual_disks
           /\ \E did \in DOMAIN desired_disks : did \notin DOMAIN actual_disks
        THEN [resp |-> Response(BLOCKED, "reboot_required", "none"),
              state |-> "IDLE", reboot_required |-> TRUE]
        ELSE [resp |-> Response(APPLIED, "none", "none"),
              state |-> st, reboot_required |-> FALSE]

\* _phase_1_storage: the response, and the values it leaves in
\* Executor.state and Executor.reboot_required.
phase_1_storage(desired, actual, st, rr) ==
    LET desired_disks == DictById(Get(desired, "disks"))
        actual_disks  == DictById(Get(actual, "disks"))
    IN  IF /\ desired_disks # actual_disks
           /\ \E did \in DOMAIN desired_disks : did \notin DOMAIN actual_disks
        THEN [resp |-> Response(BLOCKED, "reboot_required", "none"),
              state |-> "IDLE", reboot_required |-> TRUE]
        ELSE [resp |-> Response(APPLIED, "none", "none"),
              state |-> st, reboot_required |-> rr]

phase_2_vars(desired) == Response(APPLIED, "none", "none")

phase_3_modules(desired) == Response(APPLIED, "none", "none")

phase_4_exposures(desired) == Response(APPLIED, "none", "none")

phase_5_convergence(actual, desired) == Response(APPLIED, "none", "none")

\* the handler lets the exception through to the caller
on_exception_reraise(st) ==
    [state |-> "IDLE", resp |-> Response("raised", "none", "none")]

\* `except Exception as e`: the state and the response the handler leaves.
on_exception(st) ==
    [state |-> "IDLE", resp |-> Response(FAILED, "none", "executor")]

\* the call blocks for ever instead of handing r to its caller
Finish_blocks(c, r) ==
    /\ pc' = [pc EXCEPT ![c] = "blocked"]
    /\ resp' = [resp EXCEPT ![c] = r]

\* The call ends with response r.
Finish(c, r) ==
    /\ pc' = [pc EXCEPT ![c] = "done"]
    /\ resp' = [resp EXCEPT ![c] = r]

Goto(c, label) == pc' = [pc EXCEPT ![c] = label]

\* Phase `phase` ran and gave `result` (a Reconcile Result, or "raised").
Ran(c, phase, result) ==
    ran' = [ran EXCEPT ![c] = Append(@, [phase |-> phase, result |-> result])]

\* The call caught exception e.
Caught(c, e) ==
    /\ exc' = [exc EXCEPT ![c] = e]
    /\ state' = on_exception(state).state
    /\ Finish(c, on_exception(state).resp)

InitExecutor ==
    /\ state = "IDLE"
    /\ reboot_required = FALSE
    /\ pending_resources = <<>>
    /\ last_committed_sha = 0
    /\ pc = [c \in Callers |-> "idle"]
    /\ actual_state = [c \in Callers |-> EmptyDict]
    /\ desired_state = [c \in Callers |-> EmptyDict]
    /\ resp = [c \in Callers |-> NoResponse]
    /\ ran = [c \in Callers |-> <<>>]
    /\ exc = [c \in Callers |-> "none"]

\* reconcile(), lines 102-107: the is_running() test.
Check(c) ==
    /\ pc[c] = "idle"
    /\ IF is_running(state)
       THEN Finish(c, Response(WAITING, "command_running", "none"))
       ELSE Goto(c, "mark") /\ UNCHANGED resp
    /\ UNCHANGED <<diskVars, storeVars, execVars, actual_state, desired_state, ran, exc>>

\* line 110
Mark(c) ==
    /\ pc[c] = "mark"
    /\ state' = "RUNNING"
    /\ Goto(c, "phase0")
    /\ UNCHANGED <<diskVars, storeVars, reboot_required, pending_resources, last_committed_sha,
                   actual_state, desired_state, resp, ran, exc>>

\* lines 114-119: _phase_0_probe, five reads of main
Phase0(c) ==
    /\ pc[c] = "phase0"
    /\ \E rd \in {ReadAll(db, wt.main, ProbeKeys, 1, EmptyDict)} :
           /\ db' = rd.db
           /\ IF ~rd.ok
              THEN /\ Ran(c, 0, "raised")
                   /\ Caught(c, "IntegrityError")
                   /\ UNCHANGED actual_state
              ELSE /\ actual_state' = [actual_state EXCEPT ![c] = rd.dict]
                   /\ UNCHANGED <<state, exc>>
                   /\ IF ProbeFailed(rd.dict)
                      THEN /\ Ran(c, 0, FAILED)
                           /\ Finish(c, Response(FAILED, "none", "probe"))
                      ELSE /\ Ran(c, 0, APPLIED)
                           /\ Goto(c, "desired")
                           /\ UNCHANGED resp
    /\ UNCHANGED <<diskVars, commits, heads, wt, last, reboot_required, pending_resources,
                   last_committed_sha, desired_state>>

\* line 122: _get_desired_state, six reads of edit
GetDesired(c) ==
    /\ pc[c] = "desired"
    /\ \E rd \in {ReadAll(db, wt.edit, DesiredKeys, 1, EmptyDict)} :
           /\ db' = rd.db
           /\ IF ~rd.ok
              THEN /\ Caught(c, "IntegrityError")
                   /\ UNCHANGED desired_state
              ELSE /\ desired_state' = [desired_state EXCEPT ![c] = rd.dict]
                   /\ Goto(c, "phase1")
                   /\ UNCHANGED <<state, resp, exc>>
    /\ UNCHANGED <<diskVars, commits, heads, wt, last, reboot_required, pending_resources,
                   last_committed_sha, actual_state, ran>>

\* lines 125-127
Phase1(c) ==
    /\ pc[c] = "phase1"
    /\ LET r == phase_1_storage(desired_state[c], actual_state[c], state, reboot_required)
       IN  /\ state' = r.state
           /\ reboot_required' = r.reboot_required
           /\ Ran(c, 1, r.resp.result)
           /\ IF Aborts(r.resp.result)
              THEN Finish(c, r.resp)
              ELSE Goto(c, "phase2") /\ UNCHANGED resp
    /\ UNCHANGED <<diskVars, storeVars, pending_resources, last_committed_sha,
                   actual_state, desired_state, exc>>

\* lines 130-132, 135-137, 140-142: a phase that touches no Executor field
StubPhase(c, phase, r, next) ==
    /\ Ran(c, phase, r.result)
    /\ IF Aborts(r.result)
       THEN Finish(c, r)
       ELSE Goto(c, next) /\ UNCHANGED resp
    /\ UNCHANGED <<diskVars, storeVars, execVars, actual_state, desired_state, exc>>

Phase2(c) ==
    /\ pc[c] = "phase2"
    /\ StubPhase(c, 2, phase_2_vars(desired_state[c]), "phase3")

Phase3(c) ==
    /\ pc[c] = "phase3"
    /\ StubPhase(c, 3, phase_3_modules(desired_state[c]), "phase4")

Phase4(c) ==
    /\ pc[c] = "phase4"
    /\ StubPhase(c, 4, phase_4_exposures(desired_state[c]), "phase5")

\* the convergence phase checks main's exports out over the edit checkout
Phase5_resets_edit(c) ==
    /\ pc[c] = "phase5"
    /\ Ran(c, 5, APPLIED)
    /\ Finish(c, Response(APPLIED, "none", "none"))
    /\ state' = "IDLE"
    /\ wt' = [wt EXCEPT !.edit = wt.main]
    /\ UNCHANGED <<diskVars, commits, heads, db, last, reboot_required, pending_resources,
                   last_committed_sha, actual_state, desired_state, exc>>

\* lines 145-149
Phase5(c) ==
    /\ pc[c] = "phase5"
    /\ LET r == phase_5_convergence(actual_state[c], desired_state[c])
       IN  Ran(c, 5, r.result) /\ Finish(c, r)
    /\ state' = "IDLE"
    /\ UNCHANGED <<diskVars, storeVars, reboot_required, pending_resources, last_committed_sha,
                   actual_state, desired_state, exc>>

\* The caller has its response; the locals of the call are gone.
Return(c) ==
    /\ pc[c] = "done"
    /\ pc' = [pc EXCEPT ![c] = "idle"]
    /\ actual_state' = [actual_state EXCEPT ![c] = EmptyDict]
    /\ desired_state' = [desired_state EXCEPT ![c] = EmptyDict]
    /\ resp' = [resp EXCEPT ![c] = NoResponse]
    /\ ran' = [ran EXCEPT ![c] = <<>>]
    /\ exc' = [exc EXCEPT ![c] = "none"]
    /\ UNCHANGED <<diskVars, storeVars, execVars>>

\* Writes to edit and merges onto main are serialized with reconcile() by
\* their callers (the checkouts and the cache are shared and unlocked).
Serialized == \A c \in Callers : pc[c] = "idle"

WriteToEdit ==
    /\ Serialized
    /\ \E table \in WriteTables, rows \in RowLists : write_to_edit(table, rows)
    /\ UNCHANGED <<diskVars, execVars, callVars>>

MergeToMain ==
    /\ Serialized
    /\ \E commit_sha \in 1..MaxCommits : merge_to_main(commit_sha)
    /\ UNCHANGED <<diskVars, execVars, callVars>>

\* The read calls of a client of the store.
GetDesiredResources ==
    /\ Serialized
    /\ \E table \in WriteTables : get_desired_resources(table)
    /\ UNCHANGED <<diskVars, execVars, callVars>>

GetActualResources ==
    /\ Serialized
    /\ \E table \in WriteTables : get_actual_resources(table)
    /\ UNCHANGED <<diskVars, execVars, callVars>>

GetEditStatus ==
    /\ Serialized
    /\ get_edit_status
    /\ UNCHANGED <<diskVars, execVars, callVars>>

WriteVars ==
    /\ Serialized
    /\ \E rows \in VarLists : write_to_edit("vars", rows)
    /\ UNCHANGED <<diskVars, execVars, callVars>>

\* write_to_edit taken one file operation at a time.
WriteOpen ==
    /\ Serialized
    /\ writer.at = "idle"
    /\ Len(commits) < MaxCommits
    /\ \E table \in WriteTables, rows \in RowLists :
          /\ writer' = [at |-> "opened", table |-> table, rows |-> rows]
          /\ open_w(table)
    /\ UNCHANGED <<defaults_file, bootVars, cmdVars, reader, commits, heads, db, last,
                   execVars, callVars>>

WriteDocument ==
    /\ writer.at = "opened"
    /\ writer' = [writer EXCEPT !.at = "written"]
    /\ write_document(writer.table, writer.rows)
    /\ UNCHANGED <<defaults_file, bootVars, cmdVars, reader, commits, heads, db, last,
                   execVars, callVars>>

WriteReplace ==
    /\ writer.at = "written"
    /\ writer' = [writer EXCEPT !.at = "replaced"]
    /\ replace(writer.table, writer.rows)
    /\ UNCHANGED <<defaults_file, bootVars, cmdVars, reader, commits, heads, db, last,
                   execVars, callVars>>

WriteCommit ==
    /\ writer.at = "replaced"
    /\ writer' = NoWriter
    /\ add_and_commit(writer.table, writer.rows)
    /\ UNCHANGED <<defaults_file, bootVars, cmdVars, reader, tmp, torn, wt, db, execVars,
                   callVars>>

\* The process dies inside write_to_edit; the files stay as they are and
\* no process holds the store.
Crash ==
    /\ writer.at \in {"opened", "written", "replaced"}
    /\ writer' = [writer EXCEPT !.at = "crashed"]
    /\ up' = FALSE
    /\ UNCHANGED <<defaults_file, root, cache, defaults_exists, cmdVars, reader, tmp, torn,
                   storeVars, execVars, callVars>>

\* ---------------------------------------------------------- initialization
\* No branch exists.
NoHeads == [main |-> 0, edit |-> 0]

\* every root is taken for a new one
repo_never_found(r) == FALSE

\* _init_repos, lines 144-147: Repo(self.path) opens the repository at the
\* root, also one that has no commit yet.
repo_found(r) == r # "absent"

\* a missing defaults document counts as an empty one
write_default_exports_empty(exists, defaults) ==
    [ok |-> TRUE, exports |-> IF exists THEN defaults ELSE EmptySnapshot,
     error |-> "none", names |-> <<>>]

\* _write_default_exports: FileNotFoundError naming the expected path and
\* ZEROPOINT_STORE_DEFAULTS_FILE when the document is missing, otherwise one
\* export per table of the document.
write_default_exports(exists, defaults) ==
    IF ~exists
    THEN [ok |-> FALSE, exports |-> EmptySnapshot, error |-> "FileNotFoundError",
          names |-> <<"defaults_file", "ZEROPOINT_STORE_DEFAULTS_FILE">>]
    ELSE [ok |-> TRUE, exports |-> defaults, error |-> "none", names |-> <<>>]

\* _init_repos.  A new root: Repo.init, the defaults, the initial commit,
\* main and edit.  A repository without a commit has neither main nor
\* master, so create_head("edit", "main") raises.  A repository with a log
\* keeps its branches.
init_repos(r, log, hd, exists, defaults) ==
    IF ~repo_found(r)
    THEN LET w == write_default_exports(exists, defaults)
         IN  IF ~w.ok
             THEN [ok |-> FALSE, error |-> w.error, names |-> w.names,
                   root |-> "unborn", commits |-> <<>>, heads |-> NoHeads]
             ELSE [ok |-> TRUE, error |-> "none", names |-> <<>>, root |-> "log",
                   commits |-> index_commit(<<>>, 0, w.exports,
                                            "Initialize state repo with defaults"),
                   heads |-> [main |-> 1, edit |-> 1]]
    ELSE IF log = <<>>
    THEN [ok |-> FALSE, error |-> "GitCommandError", names |-> <<>>,
          root |-> r, commits |-> log, heads |-> hd]
    ELSE [ok |-> TRUE, error |-> "none", names |-> <<>>,
          root |-> r, commits |-> log, heads |-> hd]

\* _init_db, lines 229-238: rebuild when the file is missing or when
\* SELECT 1 FROM disks raises.
needs_rebuild(c) == c.file # "sqlite" \/ "disks" \notin c.tables

\* _init_db.  The rebuild lists sqlite_master (DatabaseError on a file that
\* is not a database), drops every table, creates the schema and imports
\* main's exports.
init_db(c, d, exports) ==
    IF ~needs_rebuild(c) THEN [ok |-> TRUE, error |-> "none", cache |-> c, db |-> d]
    ELSE IF c.file = "garbage"
    THEN [ok |-> FALSE, error |-> "DatabaseError", cache |-> c, db |-> d]
    ELSE The({ [ok |-> imp.ok, error |-> IF imp.ok THEN "none" ELSE "IntegrityError",
                cache |-> FullCache, db |-> imp.db]
               : imp \in {import_from_branch(EmptyDb, exports)} })

\* StateStore.__init__: _init_repos, then _init_db; the checkouts are
\* removed with --force and added again from the branch tips.
Initialize ==
    /\ ~up
    /\ \E g \in {init_repos(root, commits, heads, defaults_exists, defaults_file)} :
        IF ~g.ok
        THEN /\ root' = g.root
             /\ last' = Call("init", 0, "none", <<>>, g.error, g.names)
             /\ UNCHANGED <<commits, heads, wt, db, up, cache, tmp, torn, writer>>
        ELSE \E i \in {init_db(cache, db, g.commits[g.heads.main].snap)} :
             /\ root' = g.root
             /\ commits' = g.commits
             /\ heads' = g.heads
             /\ wt' = [main |-> g.commits[g.heads.main].snap,
                       edit |-> g.commits[g.heads.edit].snap]
             /\ tmp' = NoTmp
             /\ torn' = {}
             /\ writer' = NoWriter
             /\ cache' = i.cache
             /\ db' = i.db
             /\ up' = i.ok
             /\ last' = Call("init", 0, "none", <<>>, IF i.ok THEN "ok" ELSE i.error, <<>>)
    /\ UNCHANGED <<defaults_file, defaults_exists, cmdVars, reader, execVars, callVars>>

\* The process that holds the store exits.
Shutdown ==
    /\ up
    /\ up' = FALSE
    /\ UNCHANGED <<root, cache, defaults_exists, defaults_file, tmp, torn, writer, cmdVars, reader,
                   storeVars, execVars, callVars>>

\* While no process holds the store its cache file is deleted, overwritten
\* with something that is not a database, or loses one table (disks or
\* mounts).
DamageCache ==
    /\ ~up
    /\ root = "log"
    /\ cache.file = "sqlite"
    /\ \/ cache' = [file |-> "absent", tables |-> {}] /\ db' = EmptyDb
       \/ cache' = [file |-> "garbage", tables |-> {}] /\ db' = EmptyDb
       \/ \E t \in {"disks", "mounts"} \cap cache.tables :
            /\ cache' = [cache EXCEPT !.tables = @ \ {t}]
            /\ db' = [db EXCEPT ![t] = {}]
    /\ UNCHANGED <<root, up, defaults_exists, defaults_file, tmp, torn, writer, cmdVars, reader,
                   commits, heads, wt, last, execVars, callVars>>

\* The defaults document is created, replaced or removed between two runs.
SetDefaults ==
    /\ ~up
    /\ \E e \in BOOLEAN, d \in DefaultsDocs :
        /\ <<e, d>> # <<defaults_exists, defaults_file>>
        /\ defaults_exists' = e
        /\ defaults_file' = d
    /\ UNCHANGED <<root, up, cache, tmp, torn, writer, cmdVars, reader, storeVars, execVars,
                   callVars>>

\* Before the first StateStore is constructed: nothing at the root, no cache
\* file, and a defaults document that exists or not.
InitRoot ==
    /\ root = "absent"
    /\ up = FALSE
    /\ cache = [file |-> "absent", tables |-> {}]
    /\ defaults_exists \in BOOLEAN
    /\ defaults_file \in DefaultsDocs
    /\ tmp = NoTmp
    /\ torn = {}
    /\ writer = NoWriter
    /\ commits = <<>>
    /\ heads = NoHeads
    /\ wt = [main |-> EmptySnapshot, edit |-> EmptySnapshot]
    /\ db = EmptyDb
    /\ last = NoCall

\* ---------------------------------------------------------------- commands
CommandStatus == [APPLIED |-> "applied", BLOCKED |-> "blocked", FAILED |-> "failed"]

\* The directory the path commands are given, the mountpoint the mount
\* commands are given and the device the disk commands are given.
Paths == {"/srv/p"}

Mountpoints == {"/mnt/m"}

Devices == {"/dev/sdb"}

Modes == {"0755", "0700"}

Options == {"defaults", "ro"}

\* What a name of the filesystem is: nothing, a regular file, or a directory
\* with its mode and whether it has entries.
Absent == [kind |-> "absent", mode |-> "0755", empty |-> TRUE]

\* resource.get(key): None when the key is missing.
Field(resource, key) == IF key \in DOMAIN resource THEN resource[key] ELSE "None"

\* resource.get(key, default)
FieldOr(resource, key, default) == IF key \in DOMAIN resource THEN resource[key] ELSE default

\* The shell operations.  A name outside the modelled ones cannot be
\* created, changed or mounted on: the operation fails.
\* mkdir -p: fails on a name that is a regular file, creates a missing
\* directory (mode 0755 under the usual umask), leaves a directory alone.
mkdir_p(h, q) ==
    IF q \notin DOMAIN h.dirs \/ h.dirs[q].kind = "file" THEN [ok |-> FALSE, host |-> h]
    ELSE IF h.dirs[q].kind = "dir" THEN [ok |-> TRUE, host |-> h]
    ELSE [ok |-> TRUE,
          host |-> [h EXCEPT !.dirs[q] = [kind |-> "dir", mode |-> "0755", empty |-> TRUE]]]

\* chmod mode q
chmod(h, mode, q) ==
    IF q \notin DOMAIN h.dirs \/ h.dirs[q].kind = "absent" THEN [ok |-> FALSE, host |-> h]
    ELSE [ok |-> TRUE, host |-> [h EXCEPT !.dirs[q].mode = mode]]

\* test -d q
test_d(h, q) == q \in DOMAIN h.dirs /\ h.dirs[q].kind = "dir"

\* rmdir q
rmdir(h, q) ==
    IF q \in DOMAIN h.dirs /\ h.dirs[q].kind = "dir" /\ h.dirs[q].empty
    THEN [ok |-> TRUE, host |-> [h EXCEPT !.dirs[q] = Absent]]
    ELSE [ok |-> FALSE, host |-> h]

\* mountpoint -q x: x is the target of a mount; a device node is the source
\* of a mount, never its target.
mountpoint_q(h, x) == x \in Mountpoints /\ h.mounts[x] # <<>>

\* umount q: detaches the topmost filesystem unless it is busy.
umount(h, q) ==
    IF q \notin DOMAIN h.mounts \/ h.mounts[q] = <<>> \/ h.busy[q]
    THEN [ok |-> FALSE, host |-> h]
    ELSE [ok |-> TRUE,
          host |-> [h EXCEPT !.mounts[q] = SubSeq(@, 1, Len(@) - 1)]]

\* mount -o remount,options q
remount(h, options, q) ==
    IF q \notin DOMAIN h.mounts \/ h.mounts[q] = <<>> THEN [ok |-> FALSE, host |-> h]
    ELSE [ok |-> TRUE,
          host |-> [h EXCEPT !.mounts[q][Len(h.mounts[q])].options = options]]

\* What execute() did: the CommandResult it returned (or that it raised),
\* the host it left and the shell operations it ran.
Outcome(result, h, shell) == [result |-> result, host |-> h, shell |-> shell]

Applied == [status |-> CommandStatus.APPLIED, error |-> "None", raised |-> FALSE]

Failed(error) == [status |-> CommandStatus.FAILED, error |-> error, raised |-> FALSE]

\* except Exception as e: return CommandResult(status=FAILED, error=str(e))
except_Exception(e) == Failed(e)

\* the required field is not looked at
never_missing(value) == FALSE

\* `if not path:` / `if not mountpoint:` / `if not device:`, true of None
\* and of the empty string.
required_missing(value) == value \in {"None", ""}

\* AddPath.execute
AddPath(resource, h) ==
    LET path == Field(resource, "path")
        mode == FieldOr(resource, "mode", "0755")
    IN  IF required_missing(path) THEN Outcome(Failed("path is required"), h, <<>>)
        ELSE LET a == mkdir_p(h, path)
                 b == chmod(a.host, mode, path)
             IN  IF ~a.ok
                 THEN Outcome(except_Exception("Command failed: mkdir -p"), h, <<"mkdir -p">>)
                 ELSE IF ~b.ok
                 THEN Outcome(except_Exception("Command failed: chmod"), a.host,
                              <<"mkdir -p", "chmod">>)
                 ELSE Outcome(Applied, b.host, <<"mkdir -p", "chmod">>)

\* EditPath.execute
EditPath(resource, h) ==
    LET path == Field(resource, "path")
        mode == FieldOr(resource, "mode", "0755")
    IN  IF required_missing(path) THEN Outcome(Failed("path is required"), h, <<>>)
        ELSE IF ~test_d(h, path)
        THEN Outcome(except_Exception("Command failed: test -d"), h, <<"test -d">>)
        ELSE LET b == chmod(h, mode, path)
             IN  IF ~b.ok
                 THEN Outcome(except_Exception("Command failed: chmod"), h,
                              <<"test -d", "chmod">>)
                 ELSE Outcome(Applied, b.host, <<"test -d", "chmod">>)

\* the removal is attempted whatever the test found
always_something_to_do(present) == FALSE

\* DeletePath / ReleaseMount: `if exists != "1"` / `if is_mounted != "1"`:
\* nothing to do.
nothing_to_do(present) == ~present

\* DeletePath.execute
DeletePath(resource, h) ==
    LET path == Field(resource, "path")
    IN  IF required_missing(path) THEN Outcome(Failed("path is required"), h, <<>>)
        ELSE IF nothing_to_do(test_d(h, path))
        THEN Outcome(Applied, h, <<"test -d">>)
        ELSE IF ~h.dirs[path].empty      \* [ -z "$(ls -A path)" ]
        THEN Outcome(Failed("Directory is not empty"), h, <<"test -d", "ls -A">>)
        ELSE LET d == rmdir(h, path)
             IN  IF ~d.ok
                 THEN Outcome(except_Exception("Command failed: rmdir"), h,
                              <<"test -d", "ls -A", "rmdir">>)
                 ELSE Outcome(Applied, d.host, <<"test -d", "ls -A", "rmdir">>)

\* AddMount.execute: the mountpoint is created; the mount itself is a TODO.
AddMount(resource, h) ==
    LET mountpoint == Field(resource, "mountpoint")
    IN  IF required_missing(mountpoint) THEN Outcome(Failed("mountpoint is required"), h, <<>>)
        ELSE LET a == mkdir_p(h, mountpoint)
             IN  IF ~a.ok
                 THEN Outcome(except_Exception("Command failed: mkdir -p"), h, <<"mkdir -p">>)
                 ELSE Outcome(Applied, a.host, <<"mkdir -p">>)

\* EditMount.execute
EditMount(resource, h) ==
    LET mountpoint == Field(resource, "mountpoint")
        options    == FieldOr(resource, "options", "defaults")
    IN  IF required_missing(mountpoint) THEN Outcome(Failed("mountpoint is required"), h, <<>>)
        ELSE LET m == remount(h, options, mountpoint)
             IN  IF ~m.ok
                 THEN Outcome(except_Exception("Command failed: mount -o remount"), h,
                              <<"mount -o remount">>)
                 ELSE Outcome(Applied, m.host, <<"mount -o remount">>)

\* ReleaseMount.execute
ReleaseMount(resource, h) ==
    LET mountpoint == Field(resource, "mountpoint")
    IN  IF required_missing(mountpoint) THEN Outcome(Failed("mountpoint is required"), h, <<>>)
        ELSE IF nothing_to_do(mountpoint_q(h, mountpoint))
        THEN Outcome(Applied, h, <<"mountpoint -q">>)
        ELSE LET u == umount(h, mountpoint)
             IN  IF ~u.ok
                 THEN Outcome(except_Exception("Command failed: umount"), h,
                              <<"mountpoint -q", "umount">>)
                 ELSE Outcome(Applied, u.host, <<"mountpoint -q", "umount">>)

\* AddDisk.execute: the device is looked up; partitioning and formatting are
\* a TODO.
AddDisk(resource, h) ==
    LET device == Field(resource, "device")
    IN  IF required_missing(device) THEN Outcome(Failed("device is required"), h, <<>>)
        ELSE IF device \notin h.devices  \* lsblk -d device
        THEN Outcome(except_Exception("Command failed: lsblk -d"), h, <<"lsblk -d">>)
        ELSE Outcome(Applied, h, <<"lsblk -d">>)

\* EditDisk.execute: a TODO that returns APPLIED.
EditDisk(resource, h) == Outcome(Applied, h, <<>>)

\* ReleaseDisk.execute: the wipe is a TODO.
ReleaseDisk(resource, h) ==
    LET device == Field(resource, "device")
    IN  IF required_missing(device) THEN Outcome(Failed("device is required"), h, <<>>)
        ELSE IF mountpoint_q(h, device)
        THEN Outcome(Failed("device is still mounted"), h, <<"mountpoint -q">>)
        ELSE Outcome(Applied, h, <<"mountpoint -q">>)

CommandNames ==
    {"AddPath", "EditPath", "DeletePath", "AddMount", "EditMount", "ReleaseMount",
     "AddDisk", "EditDisk", "ReleaseDisk"}

\* The resource descriptions a command is handed: rows of its own table
\* (paths, mounts, disks); a field may be missing, and a path may be the
\* empty string.
ResourcesOf(cmd) ==
    IF cmd \in {"AddPath", "EditPath", "DeletePath"}
    THEN {[mode |-> m] : m \in Modes}
         \cup {[path |-> q] : q \in Paths \cup {""}}
         \cup {[path |-> q, mode |-> m] : q \in Paths, m \in Modes}
    ELSE IF cmd \in {"AddMount", "EditMount", "ReleaseMount"}
    THEN {[id |-> 1]}
         \cup {[mountpoint |-> q] : q \in Mountpoints}
         \cup {[mountpoint |-> q, options |-> o] : q \in Mountpoints, o \in Options}
    ELSE {[id |-> 1]} \cup {[device |-> d] : d \in Devices}

\* Command.execute(resource) of the named command on host h.
execute(cmd, resource, h) ==
    CASE cmd = "AddPath" -> AddPath(resource, h)
      [] cmd = "EditPath" -> EditPath(resource, h)
      [] cmd = "DeletePath" -> DeletePath(resource, h)
      [] cmd = "AddMount" -> AddMount(resource, h)
      [] cmd = "EditMount" -> EditMount(resource, h)
      [] cmd = "ReleaseMount" -> ReleaseMount(resource, h)
      [] cmd = "AddDisk" -> AddDisk(resource, h)
      [] cmd = "EditDisk" -> EditDisk(resource, h)
      [] OTHER -> ReleaseDisk(resource, h)

\* The field a command requires.
RequiredField(cmd) ==
    IF cmd \in {"AddPath", "EditPath", "DeletePath"} THEN "path"
    ELSE IF cmd \in {"AddMount", "EditMount", "ReleaseMount"} THEN "mountpoint"
    ELSE "device"

\* No command has run since the host last changed under the commands.
NoExec == [cmd |-> "None", resource |-> [id |-> 0], result |-> Applied, shell |-> <<>>]

\* A host without the directory, without the mountpoint, and with the
\* device; busy[q]: a process keeps the topmost filesystem on q in use.
InitHost ==
    /\ host = [dirs |-> [q \in Paths \cup Mountpoints |-> Absent],
               mounts |-> [q \in Mountpoints |-> <<>>],
               busy |-> [q \in Mountpoints |-> FALSE],
               devices |-> Devices]
    /\ done = NoExec

\* One Command.execute call.
Execute ==
    /\ \E cmd \in CommandNames : \E resource \in ResourcesOf(cmd) :
        \E o \in {execute(cmd, resource, host)} :
            /\ host' = o.host
            /\ done' = [cmd |-> cmd, resource |-> resource, result |-> o.result,
                        shell |-> o.shell]
    /\ UNCHANGED <<defaults_file, tmp, torn, writer, bootVars, reader, storeVars, execVars,
                   callVars>>

\* Something else on the host creates, fills, empties, replaces or removes
\* the directory.
PathEvent ==
    /\ \E q \in Paths,
          d \in {Absent, [kind |-> "file", mode |-> "0755", empty |-> TRUE]}
                \cup {[kind |-> "dir", mode |-> m, empty |-> e] : m \in Modes, e \in BOOLEAN} :
        /\ d # host.dirs[q]
        /\ host' = [host EXCEPT !.dirs[q] = d]
    /\ done' = NoExec
    /\ UNCHANGED <<defaults_file, tmp, torn, writer, bootVars, reader, storeVars, execVars,
                   callVars>>

\* Something else mounts a filesystem (its source, its options) on the
\* mountpoint, over what is mounted there already.
MountEvent ==
    /\ \E q \in Mountpoints,
          e \in {[source |-> src, options |-> o] :
                   src \in Devices \cup {"tmpfs"}, o \in Options} :
        /\ host.dirs[q].kind = "dir"
        /\ Len(host.mounts[q]) < MaxStack
        /\ e.source \in host.devices \cup {"tmpfs"}
        /\ ~host.busy[q]
        /\ host' = [host EXCEPT !.mounts[q] = Append(@, e)]
    /\ done' = NoExec
    /\ UNCHANGED <<defaults_file, tmp, torn, writer, bootVars, reader, storeVars, execVars,
                   callVars>>

\* A process starts or stops using the topmost filesystem of the mountpoint.
BusyEvent ==
    /\ \E q \in Mountpoints :
        /\ host.mounts[q] # <<>>
        /\ host' = [host EXCEPT !.busy[q] = ~@]
    /\ done' = NoExec
    /\ UNCHANGED <<defaults_file, tmp, torn, writer, bootVars, reader, storeVars, execVars,
                   callVars>>

\* A device that is not mounted is unplugged, a missing one is plugged in.
DeviceEvent ==
    /\ \E d \in Devices :
        /\ \A q \in Mountpoints : \A k \in 1..Len(host.mounts[q]) :
              host.mounts[q][k].source # d
        /\ host' = [host EXCEPT !.devices = IF d \in @ THEN @ \ {d} ELSE @ \cup {d}]
    /\ done' = NoExec
    /\ UNCHANGED <<defaults_file, tmp, torn, writer, bootVars, reader, storeVars, execVars,
                   callVars>>

\* -------------------------------------------------------- concurrent reads
\* The threads that call the store; thread 1 constructed it.
Threads == {1, 2}

\* _init_db, line 240: sqlite3.connect(path) with check_same_thread left at
\* its default; thread 1, which ran __init__, owns the connection, and a
\* statement on the connection from another thread raises ProgrammingError.
same_thread(t) == t = 1

NoRead ==
    [at |-> "idle", op |-> "none", table |-> "none", res |-> "none", value |-> <<>>,
     overlapped |-> {}]

\* The branch a read call imports.
BranchOf(op) == IF op = "get_actual" THEN "main" ELSE "edit"

\* Thread u is inside a read call.
Reading(u) == reader[u].at \in {"import", "select"}

\* Thread t's call ends with outcome res and returned rows value.
ReadEnds(t, res, value) ==
    reader' = [reader EXCEPT ![t].at = "done", ![t].res = res, ![t].value = value]

\* Thread t calls get_actual_resources(table) or get_desired_resources(table);
\* of table disks; the call overlaps those that are under way (overlapped:
\* the calls, as <<operation, table>>, a call has run concurrently with).
ReadCall(t) ==
    /\ reader[t].at = "idle"
    /\ \E op \in {"get_actual", "get_desired"}, table \in {"disks"} :
        reader' = [u \in Threads |->
                     IF u = t
                     THEN [NoRead EXCEPT !.at = "import", !.op = op, !.table = table,
                                         !.overlapped =
                                             {<<reader[v].op, reader[v].table>> :
                                                v \in {w \in Threads \ {t} : Reading(w)}}]
                     ELSE IF Reading(u)
                     THEN [reader[u] EXCEPT !.overlapped = @ \cup {<<op, table>>}]
                     ELSE reader[u]]
    /\ UNCHANGED <<defaults_file, tmp, torn, writer, bootVars, cmdVars, storeVars,
                   execVars, callVars>>

\* Lines 299 / 306: self._import_from_branch(branch).  Its first statement
\* on the connection is the DELETE of the first table whose export holds
\* rows.
ReadImport(t) ==
    /\ reader[t].at = "import"
    /\ LET exports == wt[BranchOf(reader[t].op)]
       IN  IF ~same_thread(t)
           THEN /\ IF \E tb \in Tables : exports[tb] # <<>>
                   THEN ReadEnds(t, "ProgrammingError", <<>>)
                   ELSE reader' = [reader EXCEPT ![t].at = "select"]
                /\ UNCHANGED db
           ELSE \E imp \in {import_from_branch(db, exports)} :
                /\ db' = imp.db
                /\ IF imp.ok
                   THEN reader' = [reader EXCEPT ![t].at = "select"]
                   ELSE ReadEnds(t, "IntegrityError", <<>>)
    /\ UNCHANGED <<defaults_file, tmp, torn, writer, bootVars, cmdVars, commits, heads, wt,
                   last, execVars, callVars>>

\* Lines 300-301 / 307-308: SELECT * FROM table ORDER BY id and the return.
ReadSelect(t) ==
    /\ reader[t].at = "select"
    /\ IF ~same_thread(t)
       THEN ReadEnds(t, "ProgrammingError", <<>>)
       ELSE ReadEnds(t, "ok", Select(db, reader[t].table))
    /\ UNCHANGED <<defaults_file, tmp, torn, writer, bootVars, cmdVars, storeVars,
                   execVars, callVars>>

\* The caller on thread t drops what its call gave.
ReadReturn(t) ==
    /\ reader[t].at = "done"
    /\ reader' = [reader EXCEPT ![t] = NoRead]
    /\ UNCHANGED <<defaults_file, tmp, torn, writer, bootVars, cmdVars, storeVars,
                   execVars, callVars>>

Init == InitStore /\ InitExecutor /\ InitHost /\ reader = [t \in Threads |-> NoRead]

\* The steps of a call that has passed the is_running() test or returns.
Proceed(c) ==
    \/ Mark(c)
    \/ Phase0(c)
    \/ GetDesired(c)
    \/ Phase1(c)
    \/ Phase2(c)
    \/ Phase3(c)
    \/ Phase4(c)
    \/ Phase5(c)
    \/ Return(c)

\* No other caller is inside reconcile().
Alone(c) == \A d \in Callers \ {c} : pc[d] = "idle"

\* The single external caller model: reconcile() calls, writes and merges
\* follow one another.
Next ==
    \/ \E c \in Callers : Alone(c) /\ Check(c)
    \/ \E c \in Callers : Proceed(c)
    \/ WriteToEdit
    \/ MergeToMain

Spec == Init /\ [][Next]_vars

\* Overlapping reconcile() calls: every interleaving of their steps.
ConcNext ==
    \/ \E c \in Callers : Check(c)
    \/ \E c \in Callers : Proceed(c)
    \/ Len(commits) < MaxConcCommits /\ WriteToEdit
    \/ MergeToMain

ConcSpec == Init /\ [][ConcNext]_vars

\* One client at a time using the whole interface: reconcile(), writes
\* (of variables too), merges, reads and status calls.
ClientNext ==
    \/ \E c \in Callers : Alone(c) /\ Check(c)
    \/ \E c \in Callers : Proceed(c)
    \/ Len(commits) < MaxClientCommits /\ WriteToEdit
    \/ Len(commits) < MaxClientCommits /\ WriteVars
    \/ MergeToMain
    \/ GetDesiredResources
    \/ GetActualResources
    \/ GetEditStatus

ClientSpec == Init /\ [][ClientNext]_vars

\* reconcile() runs in a thread of its own that is scheduled again and again,
\* and every State Store call it makes returns or raises.
FairNext ==
    \/ \E c \in Callers : Alone(c) /\ Check(c)
    \/ \E c \in Callers : Proceed(c)
    \/ Len(commits) < MaxClientCommits /\ WriteToEdit
    \/ MergeToMain

FairSpec == Init /\ [][FairNext]_vars /\ \A c \in Callers : WF_vars(Proceed(c))

\* Writes taken step by step, with a crash possible between any two steps.
CrashNext ==
    \/ WriteOpen
    \/ WriteDocument
    \/ WriteReplace
    \/ WriteCommit
    \/ Crash

CrashSpec == Init /\ [][CrashNext]_vars

\* Writes taken step by step; the process may die between the replacement
\* of the export and the commit, the store is then constructed again on the
\* same root and read.
RestartNext ==
    \/ WriteOpen
    \/ WriteDocument
    \/ WriteReplace
    \/ WriteCommit
    \/ writer.at = "replaced" /\ Crash
    \/ Initialize
    \/ up /\ writer.at = "idle" /\ GetDesiredResources

RestartSpec == Init /\ [][RestartNext]_vars

\* The State Store alone, every call of its interface in any order.
ApiNext ==
    \/ WriteToEdit
    \/ MergeToMain
    \/ GetDesiredResources
    \/ GetActualResources
    \/ GetEditStatus

ApiSpec == Init /\ [][ApiNext]_vars

\* The life of a root: processes construct the store, write and merge
\* through it and exit; between two processes the cache file and the
\* defaults document may change.
BootNext ==
    \/ Initialize
    \/ Shutdown
    \/ DamageCache
    \/ SetDefaults
    \/ up /\ cache = FullCache /\ Len(commits) < MaxBootCommits /\ WriteToEdit
    \/ up /\ cache = FullCache /\ MergeToMain

BootInit == InitRoot /\ InitExecutor /\ InitHost /\ reader = [t \in Threads |-> NoRead]

BootSpec == BootInit /\ [][BootNext]_vars

\* Read calls of two threads on one store, every interleaving of their
\* steps; writes and merges between the calls.
ReadNext ==
    \/ \E t \in Threads : ReadCall(t)
    \/ \E t \in Threads : ReadImport(t)
    \/ \E t \in Threads : ReadSelect(t)
    \/ \E t \in Threads : ReadReturn(t)
    \/ (\A t \in Threads : reader[t].at = "idle") /\ Len(commits) < MaxClientCommits
          /\ WriteToEdit
    \/ (\A t \in Threads : reader[t].at = "idle") /\ MergeToMain

ReadSpec == Init /\ [][ReadNext]_vars

\* reconcile() called again and again: a call starts when every other
\* caller has not called or has its response (the call before has
\* returned); writes and merges happen only while no caller holds a response.
RetryNext ==
    \/ \E c \in Callers : (\A d \in Callers \ {c} : pc[d] \in {"idle", "done"}) /\ Check(c)
    \/ \E c \in Callers : Proceed(c)
    \/ Len(commits) < MaxClientCommits /\ WriteToEdit
    \/ MergeToMain

RetrySpec == Init /\ [][RetryNext]_vars

\* The commands on a host that also changes under them.
CmdNext ==
    \/ Execute
    \/ PathEvent
    \/ MountEvent
    \/ BusyEvent
    \/ DeviceEvent

\* The store was constructed from the empty defaults document.
CmdInit == Init /\ defaults_file = EmptySnapshot

CmdSpec == CmdInit /\ [][CmdNext]_vars

\* ------------------------------------------------------------ properties
InPipeline(c) == pc[c] \in {"phase0", "desired", "phase1", "phase2", "phase3", "phase4", "phase5"}

\* Caller c enters reconcile() in this step.
Enters(c) == pc[c] = "idle" /\ pc'[c] # "idle"

\* C1: a reconcile() that finds the Executor RUNNING returns waiting with
\* reason command_running, runs no phase, leaves the cache as it was (no
\* branch is read) and changes no Executor field and no branch tip.
C1_SingleFlightRefusal ==
    [][\A c \in Callers :
          (Enters(c) /\ state = "RUNNING") =>
              /\ pc'[c] = "done"
              /\ resp'[c] = Response(WAITING, "command_running", "none")
              /\ ran'[c] = <<>>
              /\ UNCHANGED <<state, reboot_required, pending_resources,
                             last_committed_sha, commits, heads, wt, db>>]_vars

\* a call was answered waiting while another call was in the pipeline
C1_Witness ==
    \E c, d \in Callers :
        /\ pc[c] = "done"
        /\ resp[c].result = WAITING
        /\ ran[c] = <<>>
        /\ InPipeline(d)
        /\ state = "RUNNING"

\* C2: at most one reconcile() call is executing phases 0-5 at any time.
C2_MutualExclusion ==
    \A c, d \in Callers : (InPipeline(c) /\ InPipeline(d)) => c = d

\* C3: main's tip is reachable from edit's tip.
C3_ForwardOnly == IsAncestor(commits, heads.main, heads.edit)

\* main was fast-forwarded to a commit that edit has since left behind
C3_Witness ==
    /\ last.op = "merge"
    /\ last.res = "ok"
    /\ heads.main = last.arg
    /\ heads.main > 1
    /\ heads.edit # heads.main

\* This step is a merge_to_main(sha) call of a client.
MergeStep(sha) == merge_to_main(sha) /\ UNCHANGED <<diskVars, execVars, callVars>>

\* sha is main's tip or a descendant of it
LinearDescendant(sha) == Known(sha) /\ IsAncestor(commits, heads.main, sha)

\* C4 as claimed: merge_to_main raises for every commit id that is not a
\* linear descendant of main's tip, unknown ids and strict ancestors
\* included, and leaves the log, the tips and the checkouts alone.
C4_FailsUnlessDescendant ==
    [][\A sha \in 1..MaxCommits :
          (MergeStep(sha) /\ ~LinearDescendant(sha)) =>
              /\ last'.res = "RuntimeError"
              /\ UNCHANGED <<commits, heads, wt>>]_vars

\* C4 as it holds: merge_to_main raises for an unknown commit id and raises
\* no merge error for a strict ancestor of main's tip; in both cases the
\* log, the tips and the checkouts stay as they were; no merge_to_main call
\* adds a commit.
C4_FailsOnUnknownNoOpOnAncestor ==
    [][\A sha \in 1..MaxCommits :
          MergeStep(sha) =>
              /\ commits' = commits
              /\ ~LinearDescendant(sha) =>
                    /\ UNCHANGED <<heads, wt>>
                    /\ last'.res = "RuntimeError" <=> ~Known(sha)]_vars

\* a merge of an unknown commit id was refused after main had advanced
C4_Witness ==
    /\ last.op = "merge"
    /\ last.res = "RuntimeError"
    /\ ~Known(last.arg)
    /\ heads.main > 1

\* The exports of both checkouts have unique ids in every table.
WellFormedStore ==
    \A t \in Tables : UniqueIds(wt.main[t]) /\ UniqueIds(wt.edit[t])

\* Disk ids that intent's snapshot lists and reality's snapshot lacks.
NewDiskIds == IdsOf(wt.edit["disks"]) \ IdsOf(wt.main["disks"])

Returned(c, result) == pc[c] = "done" /\ resp[c].result = result

\* C5: when the latest store call was a write whose disks all exist in
\* reality and a reconcile() after it returns applied, main's tip is the
\* commit id that write returned (edit's tip).
C5_PromotionOnConvergence ==
    \A c \in Callers :
        (Returned(c, APPLIED) /\ last.op = "write" /\ WellFormedStore /\ NewDiskIds = {})
            => (heads.main = last.res /\ heads.main = heads.edit)

\* C6: when a reconcile() returns applied, last_committed_sha is the commit
\* merged into main (edit's tip), not None.
C6_LastCommittedRecorded ==
    \A c \in Callers :
        Returned(c, APPLIED)
            => (last_committed_sha # 0 /\ last_committed_sha = heads.edit
                                        /\ last_committed_sha = heads.main)

Last(seq) == seq[Len(seq)]

\* C7: within one call the phases run in the order 0,1,2,3,4,5; a phase runs
\* only after every earlier one returned applied; a phase result other than
\* applied ends the call and is the call's response; after a blocked phase 1
\* no later phase has run.
C7_PhaseOrder ==
    \A c \in Callers :
        /\ Len(ran[c]) <= Len(Phases)
        /\ \A k \in 1..Len(ran[c]) : ran[c][k].phase = Phases[k]
        /\ \A k \in 1..(Len(ran[c]) - 1) : ran[c][k].result = APPLIED
        /\ (ran[c] # <<>> /\ Last(ran[c]).result \in {BLOCKED, FAILED, WAITING, "running"})
              => (pc[c] = "done" /\ resp[c].result = Last(ran[c]).result)
        /\ resp[c].result = BLOCKED
              => (Len(ran[c]) = 2 /\ resp[c] = Response(BLOCKED, "reboot_required", "none"))
        /\ resp[c].result = APPLIED => Len(ran[c]) = Len(Phases)

\* a call ended by a blocked phase 1, with phases 0 and 1 as the only ones run
C7_Witness ==
    \E c \in Callers :
        /\ Returned(c, BLOCKED)
        /\ ran[c] = <<[phase |-> 0, result |-> APPLIED], [phase |-> 1, result |-> BLOCKED]>>

\* C8: when no reconcile() call is in progress the Executor is IDLE.
C8_NeverStuckRunning ==
    (\A c \in Callers : pc[c] \in {"idle", "done"}) => state = "IDLE"

\* a call has returned blocked, no call is in progress
C8_Witness ==
    /\ \E c \in Callers : Returned(c, BLOCKED)
    /\ \A c \in Callers : pc[c] \in {"idle", "done"}
    /\ state = "IDLE"

\* The names of the phases and of the resource tables.
OffendingNames ==
    {"probe", "storage", "vars", "modules", "exposures", "convergence"} \cup Tables

\* C9 as claimed: a call that caught an exception returns failed with an
\* error naming the phase or the resource that raised it.
C9_FaultNamesPhaseOrResource ==
    \A c \in Callers :
        exc[c] # "none"
            => (Returned(c, FAILED) /\ resp[c].error \in OffendingNames)

\* C9 as it holds: a call that caught an exception returns failed with the
\* error resource "executor", whichever phase or read raised it.
C9_FaultReportedAsExecutor ==
    \A c \in Callers :
        exc[c] # "none"
            => (pc[c] = "done" /\ resp[c] = Response(FAILED, "none", "executor"))

\* a read of main raised inside phase 0 and the call returned failed
C9_Witness ==
    \E c \in Callers :
        /\ exc[c] = "IntegrityError"
        /\ ran[c] = <<[phase |-> 0, result |-> "raised"]>>
        /\ Returned(c, FAILED)

\* C10: when intent's disks list an id that reality's disks lack, a
\* reconcile() returns blocked with reason REBOOT_REQUIRED, reboot_required
\* is set and no phase after phase 1 has run.
C10_RebootGate ==
    \A c \in Callers :
        (pc[c] = "done" /\ resp[c].result # WAITING /\ WellFormedStore /\ NewDiskIds # {})
            => /\ resp[c] = Response(BLOCKED, "reboot_required", "none")
               /\ reboot_required
               /\ Len(ran[c]) = 2

\* The variables of `desired` whose value refers to a row that `desired`
\* does not hold.
UnresolvedVars(desired) ==
    {k \in 1..Len(Get(desired, "vars")) :
        LET ref == RefOf(desired["vars"][k].v)
        IN  /\ ref.id # 0
            /\ ref.id \notin IdsOf(Get(desired, ref.table))}

\* The phases a call ran.
PhasesRun(c) == {ran[c][k].phase : k \in 1..Len(ran[c])}

\* C11: a reconcile() that reaches phase 2 with a desired variable whose
\* reference resolves to no variable or row returns failed, and phases 3 to
\* 5 do not run.
C11_UnresolvedReferenceFails ==
    \A c \in Callers :
        (/\ pc[c] = "done"
         /\ 2 \in PhasesRun(c)
         /\ UnresolvedVars(desired_state[c]) # {})
        => /\ resp[c].result = FAILED
           /\ PhasesRun(c) \cap {3, 4, 5} = {}

\* The rows of an export, whatever their order.
RowSet(rows) == {rows[k] : k \in 1..Len(rows)}

\* The tables whose rows differ between reality and intent.
Unconverged == {t \in Tables : RowSet(wt.main[t]) # RowSet(wt.edit[t])}

\* C12: reconcile() returns applied only if reality matches intent in every
\* table, and a call that ran phase 5 with a table still differing returns
\* failed.
C12_ConvergenceGuard ==
    \A c \in Callers :
        /\ Returned(c, APPLIED) => Unconverged = {}
        /\ (pc[c] = "done" /\ 5 \in PhasesRun(c) /\ Unconverged # {})
               => resp[c].result = FAILED

\* Every export of the edit checkout has unique ids.
WellFormedIntent == \A t \in Tables : UniqueIds(wt.edit[t])

\* C13: get_desired_resources(t) called right after write_to_edit(t, rows)
\* with unique ids returns exactly the rows of `rows`, ordered by id, the
\* empty list included and whatever the cache held.
C13_WriteReadRoundTrip ==
    [][\A t \in WriteTables :
          (/\ last.op = "write"
           /\ last.table = t
           /\ WellFormedIntent
           /\ get_desired_resources(t))
          => /\ last'.res = "ok"
             /\ last'.value = SortById(RowSet(last.rows))]_vars

\* C14: whatever calls came before, get_actual_resources(t) returns the rows
\* of t in main's committed snapshot and get_desired_resources(t) those of
\* edit's, also when that export is empty and the cache holds rows of the
\* other branch.
C14_NoStaleReads ==
    WellFormedStore
    => /\ (last.op = "get_actual" /\ last.res = "ok")
            => last.value = SortById(RowSet(commits[heads.main].snap[last.table]))
       /\ (last.op = "get_desired" /\ last.res = "ok")
            => last.value = SortById(RowSet(commits[heads.edit].snap[last.table]))

ReconcileResults == {APPLIED, "running", BLOCKED, WAITING, FAILED}

\* C16: every reconcile() call returns, and the response it returns carries
\* one of the five results.
C16_EventuallyReturns ==
    \A c \in Callers :
        /\ (pc[c] # "idle") ~> (pc[c] = "done")
        /\ [](pc[c] = "done" => resp[c].result \in ReconcileResults)

\* A call that went through all six phases has returned.
C16_Witness == \E c \in Callers : pc[c] = "done" /\ PhasesRun(c) = {0, 1, 2, 3, 4, 5}

\* The commits reachable from edit's tip and not from main's tip.
AheadOfMain(log, hd) ==
    {k \in 1..Len(log) : IsAncestor(log, k, hd.edit) /\ ~IsAncestor(log, k, hd.main)}

\* The status a client must see: the size of that set, and the id and
\* message of its newest commit (0 and "None" when it is empty).
ExpectedStatus(log, hd) ==
    LET ahead == AheadOfMain(log, hd)
        newest == CHOOSE k \in ahead : \A j \in ahead : j <= k
    IN  [ahead_count    |-> Cardinality(ahead),
         latest_commit  |-> IF ahead = {} THEN 0 ELSE newest,
         latest_message |-> IF ahead = {} THEN "None" ELSE log[newest].msg]

C18_AtomicSnapshotWrite ==
    writer.at = "crashed"
    => /\ torn = {}
       /\ wt.edit[writer.table] \in {commits[heads.edit].snap[writer.table], writer.rows}
       /\ \A u \in Tables \ {writer.table} : wt.edit[u] = commits[heads.edit].snap[u]

\* The process died while the temporary file held an incomplete document of
\* rows that differ from the committed ones.
C18_Witness ==
    /\ writer.at = "crashed"
    /\ tmp[writer.table] = "partial"
    /\ writer.rows # commits[heads.edit].snap[writer.table]
    /\ heads.edit > 1

\* C19: no step removes or rewrites a commit of the log, and every
\* write_to_edit(t, rows, msg) appends exactly one commit whose parent is
\* edit's previous tip and whose snapshot differs from the parent's in table
\* t only, makes it edit's tip and returns its id.
C19_AppendOnlyLog ==
    [][/\ Len(commits') >= Len(commits)
       /\ \A k \in 1..Len(commits) : commits'[k] = commits[k]
       /\ (last'.op = "write" /\ last' # last)
            => /\ Len(commits') = Len(commits) + 1
               /\ heads'.edit = Len(commits')
               /\ last'.res = heads'.edit
               /\ commits'[heads'.edit].parent = heads.edit
               /\ commits'[heads'.edit].snap
                      = [commits[heads.edit].snap EXCEPT ![last'.table] = last'.rows]]_vars

\* Two writes were appended one after the other, each changing its table.
C19_Witness ==
    /\ last.op = "write"
    /\ Len(commits) = 3
    /\ commits[3].parent = 2
    /\ commits[3].snap # commits[2].snap
    /\ commits[2].snap # commits[1].snap

\* C20: after StateStore.__init__ on a root without a log and with a valid
\* defaults document, and before any write, both branches exist with the same
\* tip, whose snapshot is the defaults document, and get_actual_resources
\* ("disks") and get_desired_resources("disks") return the disks of the
\* defaults, ordered by id.
C20_FreshInitialization ==
    Len(commits) = 1
    => /\ heads = [main |-> 1, edit |-> 1]
       /\ commits[1].snap = defaults_file
       /\ wt = [main |-> defaults_file, edit |-> defaults_file]
       /\ (last.op \in {"get_actual", "get_desired"} /\ last.table = "disks")
            => /\ last.res = "ok"
               /\ last.value = SortById(RowSet(defaults_file["disks"]))

\* The first call on a fresh store read the disk of the defaults from main.
C20_Witness ==
    /\ Len(commits) = 1
    /\ last.op = "get_actual"
    /\ last.table = "disks"
    /\ last.value = <<Row(1, "x")>>

C22_InitializeIdempotent ==
    [][Initialize /\ root = "log" =>
        /\ commits' = commits
        /\ heads' = heads
        /\ (up' => /\ wt'.main = commits[heads.main].snap
                   /\ wt'.edit = commits[heads.edit].snap)
        /\ (cache = FullCache => up' /\ last'.res = "ok" /\ db' = db)]_vars

\* A store that was written to and merged has been constructed again while
\* the defaults document differs from the one the log started from.
C22_Witness ==
    /\ last.op = "init"
    /\ last.res = "ok"
    /\ up
    /\ Len(commits) >= 2
    /\ heads.main # 1
    /\ defaults_exists
    /\ defaults_file # commits[1].snap

\* C23: a constructed store has a cache that holds every table of the
\* schema, whatever the cache file was before the construction.
C23_CacheCompleteAfterInit == up => cache = FullCache

\* This step is one execute() call: every other step of the host clears
\* `done`.
Executed == done'.cmd \in CommandNames

\* This step repeats the execute() call made just before it.
Repeats == Executed /\ done'.cmd = done.cmd /\ done'.resource = done.resource

\* C24: an execute(r) that follows an execute(r) of the same command which
\* returned applied returns applied and leaves the host as it is.
C24_CommandIdempotence ==
    [][Repeats /\ done.result.status = CommandStatus.APPLIED =>
        /\ done'.result.status = CommandStatus.APPLIED
        /\ host' = host]_vars

\* The device of the resource is the source of a filesystem mounted on h.
StillMounted(h, resource) ==
    /\ "device" \in DOMAIN resource
    /\ \E q \in Mountpoints : \E k \in 1..Len(h.mounts[q]) :
          h.mounts[q][k].source = resource.device

\* The path of the resource is a directory with entries on h.
NonEmptyDirectory(h, resource) ==
    /\ "path" \in DOMAIN resource
    /\ resource.path \in Paths
    /\ h.dirs[resource.path].kind = "dir"
    /\ ~h.dirs[resource.path].empty

\* C25: execute() never raises; ReleaseDisk on a device that is still
\* mounted and DeletePath on a directory with entries return failed with a
\* reason and leave the host as it is; and whenever the result is failed it
\* carries a reason.
C25_CommandsNeverRaise ==
    [][Executed =>
        /\ ~done'.result.raised
        /\ (done'.result.status = CommandStatus.FAILED => done'.result.error # "None")
        /\ (done'.cmd = "ReleaseDisk" /\ StillMounted(host, done'.resource) =>
               done'.result.status = CommandStatus.FAILED /\ host' = host)
        /\ (done'.cmd = "DeletePath" /\ NonEmptyDirectory(host, done'.resource) =>
               done'.result.status = CommandStatus.FAILED /\ host' = host)]_vars

\* The commands whose required field the resource lacks.
LacksRequiredField(cmd, resource) ==
    /\ cmd \in CommandNames \ {"EditDisk"}
    /\ Field(resource, RequiredField(cmd)) \in {"None", ""}

\* C26: execute() on a resource that lacks the command's required field
\* (device for AddDisk and ReleaseDisk, mountpoint for the mount commands,
\* path for the path commands) returns failed with the reason, runs no shell
\* operation and leaves the host as it is.
C26_ValidationBeforeMutation ==
    [][Executed /\ LacksRequiredField(done'.cmd, done'.resource) =>
        /\ ~done'.result.raised
        /\ done'.result.status = CommandStatus.FAILED
        /\ done'.result.error \in {"path is required", "mountpoint is required",
                                   "device is required"}
        /\ done'.shell = <<>>
        /\ host' = host]_vars

\* A command was refused for its missing field on a host that holds a
\* directory and a mount.
C26_Witness ==
    /\ LacksRequiredField(done.cmd, done.resource)
    /\ done.result.status = CommandStatus.FAILED
    /\ done.shell = <<>>
    /\ \E q \in Paths : host.dirs[q].kind = "dir"
    /\ \E q \in Mountpoints : host.mounts[q] # <<>>

\* The host is already what command cmd is to make of resource.
InDesiredState(cmd, resource, h) ==
    /\ ~LacksRequiredField(cmd, resource)
    /\ CASE cmd \in {"AddPath", "EditPath"} ->
               /\ test_d(h, resource.path)
               /\ h.dirs[resource.path].mode = FieldOr(resource, "mode", "0755")
         [] cmd = "DeletePath" -> ~test_d(h, resource.path)
         [] cmd = "AddMount" -> test_d(h, resource.mountpoint)
         [] cmd = "EditMount" ->
               /\ h.mounts[resource.mountpoint] # <<>>
               /\ h.mounts[resource.mountpoint][Len(h.mounts[resource.mountpoint])].options
                    = FieldOr(resource, "options", "defaults")
         [] cmd = "ReleaseMount" -> h.mounts[resource.mountpoint] = <<>>
         [] cmd = "AddDisk" -> resource.device \in h.devices
         [] cmd = "EditDisk" -> TRUE
         [] OTHER -> ~StillMounted(h, resource)

\* In(x, seq): x is an element of the sequence.
In(x, seq) == \E k \in 1..Len(seq) : seq[k] = x

\* C27: a command that finds the host in the desired state returns applied
\* and leaves the host as it is; ReleaseMount on a mountpoint that is not
\* mounted runs no umount and DeletePath on a path that is no directory runs
\* no rmdir.
C27_NoOpOnMatch ==
    [][Executed /\ InDesiredState(done'.cmd, done'.resource, host) =>
        /\ done'.result.status = CommandStatus.APPLIED
        /\ host' = host
        /\ (done'.cmd = "ReleaseMount" => ~In("umount", done'.shell))
        /\ (done'.cmd = "DeletePath" => ~In("rmdir", done'.shell))]_vars

\* ReleaseMount has returned applied for an existing mountpoint with nothing
\* mounted on it, after the test alone.
C27_Witness ==
    /\ done.cmd = "ReleaseMount"
    /\ done.result.status = CommandStatus.APPLIED
    /\ done.shell = <<"mountpoint -q">>
    /\ \E q \in Mountpoints :
          /\ Field(done.resource, "mountpoint") = q
          /\ host.dirs[q].kind = "dir"
          /\ host.mounts[q] = <<>>

\* The result phase 1 returned in the call of caller c, as a set (empty
\* while phase 1 has not run).
Phase1Results(c) == {ran[c][k].result : k \in {j \in 1..Len(ran[c]) : ran[c][j].phase = 1}}

\* The disk ids of `desired` that `actual` lacks.
MissingDiskIds(desired, actual) ==
    IdsOf(Get(desired, "disks")) \ IdsOf(Get(actual, "disks"))

\* C28: phase 1 returns blocked when some disk id of the desired state it
\* was handed is missing from the actual state it was handed, and applied
\* otherwise, whatever else differs between the two disk tables.
C28_Phase1BlockedIffNewDisk ==
    \A c \in Callers : \A r \in Phase1Results(c) :
        r = (IF MissingDiskIds(desired_state[c], actual_state[c]) # {}
             THEN BLOCKED ELSE APPLIED)

\* Phase 1 has returned applied although a disk has other fields in desired
\* than in actual and actual holds a disk id that desired lacks.
C28_Witness ==
    \E c \in Callers :
        /\ Phase1Results(c) = {APPLIED}
        /\ \E i \in IdsOf(Get(desired_state[c], "disks")) :
              DictById(Get(desired_state[c], "disks"))[i]
                  # DictById(Get(actual_state[c], "disks"))[i]
        /\ MissingDiskIds(actual_state[c], desired_state[c]) # {}

\* C29: two reconcile() calls that follow one another with no write and no
\* merge from the start of the first to the end of the second return the
\* same response.
C29_ReconcileIsFunctionOfBranches ==
    \A c, d \in Callers : (pc[c] = "done" /\ pc[d] = "done") => resp[c] = resp[d]

\* The read of the other branch.
OtherRead(op) == IF op = "get_actual" THEN "get_desired" ELSE "get_actual"

\* C30: a get_actual(t) or get_desired(t) call that ran concurrently with
\* the read of the other branch for the same table returns the rows of its
\* own branch's export of the table (stated for exports that hold rows with
\* distinct ids).
C30_ReadsIsolated ==
    \A t \in Threads :
        (/\ reader[t].at = "done"
         /\ <<OtherRead(reader[t].op), reader[t].table>> \in reader[t].overlapped
         /\ WellFormedStore
         /\ wt[BranchOf(reader[t].op)][reader[t].table] # <<>>)
            => /\ reader[t].res = "ok"
               /\ reader[t].value = SortById(RowSet(wt[BranchOf(reader[t].op)][reader[t].table]))

\* C31: when the first construction on a root has failed for want of the
\* defaults document, a construction on the same root with the document
\* present brings the store up with both branches holding the defaults, as
\* a construction on a new root does.
C31_FailedInitRecoverable ==
    [][Initialize /\ root = "unborn" /\ defaults_exists =>
        /\ up'
        /\ last'.res = "ok"
        /\ heads'.main # 0 /\ heads'.edit # 0
        /\ commits'[heads'.main].snap = defaults_file
        /\ commits'[heads'.edit].snap = defaults_file]_vars


\* Some export of the edit checkout repeats an id.
DuplicateOnIntent == ~WellFormedIntent

\* C32: write_to_edit commits rows that repeat an id as it commits any
\* others; while an export of intent repeats an id, every
\* get_desired_resources call raises IntegrityError from the re-import and
\* every reconcile() call returns failed with error resource "executor",
\* leaving the Executor IDLE, and neither kind of call moves main or changes
\* main's snapshot; once the table is rewritten with unique ids
\* get_desired_resources returns again.
C32_DuplicateIdsPoisonIntent ==
    /\ [](/\ (last.op = "write" /\ ~UniqueIds(last.rows))
              => /\ heads.edit = last.res
                 /\ commits[heads.edit].snap[last.table] = last.rows
          /\ last.op = "get_desired"
              => (last.res = IF DuplicateOnIntent THEN "IntegrityError" ELSE "ok")
          /\ DuplicateOnIntent
              => \A c \in Callers :
                    (pc[c] = "done"
                     => /\ resp[c] = Response(FAILED, "none", "executor")
                        /\ state = "IDLE"))
    /\ [][(DuplicateOnIntent /\ (last'.op = "get_desired" \/ pc' # pc))
           => /\ heads'.main = heads.main
              /\ commits' = commits
              /\ wt'.main = wt.main]_vars

\* With a repeated id on intent a get_desired_resources call has raised and
\* a reconcile() call that probed reality has returned failed.
C32_Witness ==
    /\ DuplicateOnIntent
    /\ last.op = "get_desired"
    /\ last.res = "IntegrityError"
    /\ \E c \in Callers :
          /\ pc[c] = "done"
          /\ resp[c].result = FAILED
          /\ exc[c] = "IntegrityError"
          /\ DOMAIN actual_state[c] # {}


\* Phase 1 of caller c's call returns blocked for a reboot in this step.
Phase1Blocks(c) ==
    /\ pc[c] = "phase1"
    /\ pc'[c] = "done"
    /\ resp'[c] = Response(BLOCKED, "reboot_required", "none")

\* C33: reboot_required is false on a new Executor; a step changes it only
\* when phase 1 returns blocked for a reboot, every such return leaves it
\* true, and once true it stays true, also through a later reconcile() that
\* returns applied.
C33_RebootRequiredSetOnly ==
    /\ reboot_required = FALSE
    /\ [][/\ reboot_required' # reboot_required => \E c \in Callers : Phase1Blocks(c)
          /\ (\E c \in Callers : Phase1Blocks(c)) => reboot_required'
          /\ reboot_required => reboot_required']_vars

\* After a call was blocked for a reboot a later call has run all phases
\* and returned applied, and reboot_required is still set.
C33_Witness ==
    /\ reboot_required
    /\ \E c \in Callers :
          /\ pc[c] = "done"
          /\ resp[c].result = APPLIED
          /\ PhasesRun(c) = {0, 1, 2, 3, 4, 5}


\* C34: no step of a reconcile() call, whatever the call returns, adds a
\* commit, moves edit or changes an export of the edit checkout: intent's tip
\* and snapshot are after the call what they were before it.
C34_ReconcileNeverWritesIntent ==
    [][pc' # pc => /\ commits' = commits
                   /\ heads'.edit = heads.edit
                   /\ wt'.edit = wt.edit]_vars

\* While intent is ahead of reality and differs from it, one call has run
\* all phases and returned applied and an overlapping one was refused.
C34_Witness ==
    /\ heads.edit # heads.main
    /\ wt.edit # wt.main
    /\ \E c, d \in Callers :
          /\ Returned(c, APPLIED)
          /\ PhasesRun(c) = {0, 1, 2, 3, 4, 5}
          /\ Returned(d, WAITING)


\* C35: write_to_edit(t, rows, message) puts rows into table t of intent's
\* snapshot and leaves every other table of that snapshot, in the commit and
\* in the edit checkout, as well as main's tip, commit and checkout, as they
\* were.
C35_WriteFrame ==
    [][commits' # commits =>
        /\ last'.op = "write"
        /\ commits'[heads'.edit].snap[last'.table] = last'.rows
        /\ \A t \in Tables \ {last'.table} :
              /\ commits'[heads'.edit].snap[t] = commits[heads.edit].snap[t]
              /\ wt'.edit[t] = wt.edit[t]
        /\ heads'.main = heads.main
        /\ commits'[heads'.main] = commits[heads.main]
        /\ wt'.main = wt.main]_vars

\* A table of intent was written while another table of intent held rows
\* and reality was at an earlier commit.
C35_Witness ==
    /\ last.op = "write"
    /\ last.rows # <<>>
    /\ heads.edit = last.res
    /\ heads.main # heads.edit
    /\ \E t \in Tables \ {last.table} :
          /\ commits[heads.edit].snap[t] # <<>>
          /\ commits[heads.edit].snap[t] # commits[heads.main].snap[t]


\* C36: whenever a step changes main's tip, the new tip is a strict
\* descendant of the old one; and merge_to_main called with main's tip or
\* with an ancestor of it leaves main's tip and checkout where they are.
C36_RealityOnlyForward ==
    [][/\ heads'.main # heads.main => IsAncestor(commits', heads.main, heads'.main)
       /\ \A sha \in 1..MaxCommits :
             (MergeStep(sha) /\ Known(sha) /\ IsAncestor(commits, sha, heads.main))
             => /\ heads'.main = heads.main
                /\ wt'.main = wt.main]_vars

\* After main had advanced, merge_to_main was called with a strict ancestor
\* of main's tip and returned without an error.
C36_Witness ==
    /\ last.op = "merge"
    /\ last.res = "ok"
    /\ Known(last.arg)
    /\ last.arg # heads.main
    /\ IsAncestor(commits, last.arg, heads.main)


\* C37: when the process died in write_to_edit after the export was replaced
\* and before the commit, the construction of the store on the same root
\* succeeds, leaves the log and edit's tip as they were and puts the committed
\* exports back into the edit checkout; and the first get_desired_resources
\* call after it returns the rows of edit's committed snapshot.
C37_CrashBeforeCommitSafe ==
    [][/\ (writer.at = "crashed" /\ last'.op = "init")
            => /\ up'
               /\ commits' = commits
               /\ heads'.edit = heads.edit
               /\ wt'.edit = commits[heads.edit].snap
       /\ (last.op = "init" /\ last'.op = "get_desired")
            => /\ last'.res = "ok"
               /\ last'.value = SortById(RowSet(commits[heads.edit].snap[last'.table]))]_vars

====
